---- MODULE Spec2Model ----
(***************************************************************************)
(* Path-addressed immutable document update engine of jsoncrack:           *)
(*   updateValueAtPath / getValueAtPath (the navigation primitives) and    *)
(*   the useJson store (setJson, getJson, clear, updateAtPath).            *)
(*                                                                         *)
(* JavaScript objects live in a heap (a sequence of nodes, the index is    *)
(* the object's identity), so that "the very same node" and "a fresh       *)
(* clone" are statements about identifiers.  Strings are sequences of      *)
(* one-character strings, because the code spreads and indexes them.       *)
(* JSON text is a sequence of tokens; JSON.parse and JSON.stringify are    *)
(* computed on it.                                                         *)
(***************************************************************************)
EXTENDS Integers, Sequences, FiniteSets, TLC

----------------------------------------------------------------------------
(* Bounds of the model                                                     *)

\* longest path drawn for the navigation primitives
MaxPathLen == 3
\* number of store operations in one run
MaxOps == 3
\* number of events the field editor handles in one run
MaxEvents == 6

----------------------------------------------------------------------------
(* JavaScript values                                                       *)

Undef == [t |-> "undefined"]
Null == [t |-> "null"]
Num(n) == [t |-> "number", n |-> n]
Bool(b) == [t |-> "boolean", b |-> b]
Str(s) == [t |-> "string", s |-> s]
Ref(id) == [t |-> "ref", id |-> id]
\* an array slot that was never written
Hole == [t |-> "hole"]
\* the outcome of reading a property of null or undefined
TypeError == [t |-> "TypeError"]

\* property keys: an integer index or a name
Idx(n) == [i |-> TRUE, n |-> n, s |-> <<>>]
Key(s) == [i |-> FALSE, n |-> 0, s |-> s]

\* path steps: a number or a string
NumStep(n) == [num |-> TRUE, n |-> n, s |-> <<>>]
StrStep(s) == [num |-> FALSE, n |-> 0, s |-> s]

\* field names
sA == <<"a">>
sB == <<"b">>
sC == <<"c">>
sX == <<"x">>

Digits == <<"0", "1", "2", "3", "4", "5", "6", "7", "8", "9">>

IsDigit(c) == \E d \in 1..10 : Digits[d] = c

DigitVal(c) == (CHOOSE d \in 1..10 : Digits[d] = c) - 1

RECURSIVE NumStr(_)
NumStr(n) ==
  IF n < 10 THEN <<Digits[n + 1]>>
  ELSE NumStr(n \div 10) \o <<Digits[(n % 10) + 1]>>

RECURSIVE StrNum(_)
StrNum(s) ==
  IF Len(s) = 1 THEN DigitVal(s[1])
  ELSE 10 * StrNum(SubSeq(s, 1, Len(s) - 1)) + DigitVal(s[Len(s)])

\* a string that is the canonical form of an array index
IsIndexStr(s) ==
  /\ Len(s) >= 1
  /\ \A j \in 1..Len(s) : IsDigit(s[j])
  /\ (Len(s) > 1 => s[1] # "0")

\* obj[step]: the property key a step addresses
ToPropertyKey(step) ==
  IF step.num THEN Idx(step.n)
  ELSE IF IsIndexStr(step.s) THEN Idx(StrNum(step.s))
  ELSE Key(step.s)

\* the string form of a property key
KeyStr(k) == IF k.i THEN NumStr(k.n) ELSE k.s

----------------------------------------------------------------------------
(* Heap nodes: arrays and plain objects                                    *)

\* an array: its slots, and the named properties set on it
ArrayNode(elems) == [kind |-> "array", elems |-> elems, keys |-> <<>>, vals |-> <<>>]
\* a plain object: its own properties in property order
ObjectNode(keys, vals) == [kind |-> "object", elems |-> <<>>, keys |-> keys, vals |-> vals]

EmptyObject == ObjectNode(<<>>, <<>>)

IsRef(v) == v.t = "ref"

IsArray(h, v) == IsRef(v) /\ h[v.id].kind = "array"

IsPlainObject(h, v) == IsRef(v) /\ h[v.id].kind = "object"

\* typeof v === "object"
TypeofObject(v) == v.t \in {"ref", "null"}

Truthy(v) ==
  CASE v.t = "undefined" -> FALSE
    [] v.t = "null" -> FALSE
    [] v.t = "number" -> v.n # 0
    [] v.t = "boolean" -> v.b
    [] v.t = "string" -> Len(v.s) > 0
    [] OTHER -> TRUE

KeyPos(node, k) ==
  IF \E j \in 1..Len(node.keys) : node.keys[j] = k
  THEN CHOOSE j \in 1..Len(node.keys) : node.keys[j] = k
  ELSE 0

\* node[k] on an object of the heap
OwnGet(node, k) ==
  IF node.kind = "array" /\ k.i
  THEN IF k.n < Len(node.elems) /\ node.elems[k.n + 1] # Hole
       THEN node.elems[k.n + 1]
       ELSE Undef
  ELSE IF KeyPos(node, k) # 0 THEN node.vals[KeyPos(node, k)] ELSE Undef

\* the own property keys of a node, in property order
OwnKeys(node) ==
  LET present == { j \in 1..Len(node.elems) : node.elems[j] # Hole }
      ix == [j \in 1..Len(node.elems) |-> Idx(j - 1)]
  IN  SelectSeq(ix, LAMBDA k : (k.n + 1) \in present) \o node.keys

\* v[k]
GetProp(h, v, k) ==
  CASE v.t \in {"undefined", "null"} -> TypeError
    [] v.t = "string" ->
         IF k.i /\ k.n < Len(v.s) THEN Str(<<v.s[k.n + 1]>>) ELSE Undef
    [] v.t = "ref" -> OwnGet(h[v.id], k)
    [] OTHER -> Undef

\* v?.[k]
GetPropOpt(h, v, k) ==
  IF v.t \in {"undefined", "null"} THEN Undef ELSE GetProp(h, v, k)

\* where a new property key goes: integer keys ascending, then names in
\* creation order
InsertPos(keys, k) ==
  IF k.i
  THEN Cardinality({ j \in 1..Len(keys) : keys[j].i /\ keys[j].n < k.n }) + 1
  ELSE Len(keys) + 1

InsertAt(seq, pos, x) ==
  SubSeq(seq, 1, pos - 1) \o <<x>> \o SubSeq(seq, pos, Len(seq))

\* node[k] = val
SetOwn(node, k, val) ==
  IF node.kind = "array" /\ k.i
  THEN IF k.n < Len(node.elems)
       THEN [node EXCEPT !.elems[k.n + 1] = val]
       ELSE [node EXCEPT !.elems =
               node.elems \o [j \in 1..(k.n - Len(node.elems)) |-> Hole] \o <<val>>]
  ELSE IF KeyPos(node, k) # 0
       THEN [node EXCEPT !.vals[KeyPos(node, k)] = val]
       ELSE [node EXCEPT !.keys = InsertAt(node.keys, InsertPos(node.keys, k), k),
                         !.vals = InsertAt(node.vals, InsertPos(node.keys, k), val)]

\* [...arr]: the slots in order, a hole read as undefined; named
\* properties are not iterated
SpreadArray(h, v) ==
  ArrayNode([j \in 1..Len(h[v.id].elems) |->
               IF h[v.id].elems[j] = Hole THEN Undef ELSE h[v.id].elems[j]])

\* { ...v }: the own enumerable properties of v
SpreadObject(h, v) ==
  CASE v.t = "ref" ->
         LET ks == OwnKeys(h[v.id])
         IN  ObjectNode(ks, [j \in 1..Len(ks) |-> OwnGet(h[v.id], ks[j])])
    [] v.t = "string" ->
         ObjectNode([j \in 1..Len(v.s) |-> Idx(j - 1)],
                    [j \in 1..Len(v.s) |-> Str(<<v.s[j]>>)])
    [] OTHER -> EmptyObject

----------------------------------------------------------------------------
(* updateValueAtPath and getValueAtPath                                    *)

\* a Path value; isArray is FALSE for an argument that is no array at all
PathOf(segs) == [isArray |-> TRUE, segs |-> segs]
NotAPath == [isArray |-> FALSE, segs |-> <<>>]

\* allocation of a new object: its identity is the next free index
Alloc(h, node) == [heap |-> Append(h, node), id |-> Len(h) + 1]

\* a copy of v and of everything below it
RECURSIVE DeepCopy(_, _)
RECURSIVE DeepCopySeq(_, _)
DeepCopySeq(h, vs) ==
  IF vs = <<>> THEN [heap |-> h, vals |-> <<>>]
  ELSE LET a == DeepCopy(h, Head(vs))
           b == DeepCopySeq(a.heap, Tail(vs))
       IN  [heap |-> b.heap, vals |-> <<a.val>> \o b.vals]

DeepCopy(h, v) ==
  IF ~IsRef(v) THEN [heap |-> h, val |-> v]
  ELSE LET e == DeepCopySeq(h, h[v.id].elems)
           f == DeepCopySeq(e.heap, h[v.id].vals)
       IN  [heap |-> Append(f.heap, [h[v.id] EXCEPT !.elems = e.vals, !.vals = f.vals]),
            val |-> Ref(Len(f.heap) + 1)]

\* the slip of a deep copy of the root, structuredClone(root), where the
\* code copies one level
NewRootDeepCopy(h, root) ==
  IF IsRef(root)
  THEN [heap |-> DeepCopy(h, root).heap, id |-> DeepCopy(h, root).val.id]
  ELSE Alloc(h, SpreadObject(h, root))

\* Array.isArray(root) ? [...root] : { ...root }
NewRoot(h, root) ==
  Alloc(h, IF IsArray(h, root) THEN SpreadArray(h, root) ELSE SpreadObject(h, root))

\* the slip of descending into the source child itself, child = childSrc,
\* where the code clones it
NewChildInPlace(h, childSrc) ==
  IF IsRef(childSrc) THEN [heap |-> h, id |-> childSrc.id] ELSE Alloc(h, EmptyObject)

\* the slip of an empty sequence, [], where the code puts an empty map at
\* a position that holds no container
NewChildSynthArray(h, childSrc) ==
  Alloc(h, IF IsArray(h, childSrc) THEN SpreadArray(h, childSrc)
           ELSE IF Truthy(childSrc) /\ TypeofObject(childSrc)
                THEN SpreadObject(h, childSrc)
                ELSE ArrayNode(<<>>))

\* Array.isArray(childSrc) ? [...childSrc]
\*   : (childSrc && typeof childSrc === "object") ? { ...childSrc } : {}
NewChild(h, childSrc) ==
  Alloc(h, IF IsArray(h, childSrc) THEN SpreadArray(h, childSrc)
           ELSE IF Truthy(childSrc) /\ TypeofObject(childSrc)
                THEN SpreadObject(h, childSrc)
                ELSE EmptyObject)

\* the slip of leaving out cur[k] = child
AttachChildNowhere(h, cur, k, child) == h

\* cur[k] = child
AttachChild(h, cur, k, child) == [h EXCEPT ![cur] = SetOwn(h[cur], k, Ref(child))]

\* the slip of cur.push(next) on a sequence, where the code assigns at
\* the index
AssignLastPush(h, cur, k, next) ==
  IF h[cur].kind = "array" /\ k.i
  THEN [h EXCEPT ![cur].elems = Append(h[cur].elems, next)]
  ELSE [h EXCEPT ![cur] = SetOwn(h[cur], k, next)]

\* cur[path[path.length - 1]] = next
AssignLast(h, cur, k, next) == [h EXCEPT ![cur] = SetOwn(h[cur], k, next)]

\* the loop over all steps but the last, then the final assignment
RECURSIVE WalkPath(_, _, _, _, _, _)
WalkPath(h, cur, src, segs, i, next) ==
  IF i > Len(segs) - 1
  THEN AssignLast(h, cur, ToPropertyKey(segs[Len(segs)]), next)
  ELSE LET k == ToPropertyKey(segs[i])
           childSrc == GetPropOpt(h, src, k)
           c == NewChild(h, childSrc)
       IN  WalkPath(AttachChild(c.heap, cur, k, c.id), c.id, childSrc, segs, i + 1, next)

\* !Array.isArray(path) || path.length === 0
IsDegenerate(path) == ~path.isArray \/ Len(path.segs) = 0

\* the slip of return root for the empty path
ReturnRoot(h, root, next) == [heap |-> h, val |-> root]

\* return next as T
ReturnNext(h, root, next) == [heap |-> h, val |-> next]

\* the result: the heap after the call and the value returned
updateValueAtPath(h, root, path, next) ==
  IF IsDegenerate(path)
  THEN ReturnNext(h, root, next)
  ELSE LET c == NewRoot(h, root)
       IN  [heap |-> WalkPath(c.heap, c.id, root, path.segs, 1, next),
            val |-> Ref(c.id)]

\* the slip of cur === null, which lets undefined through
IsStrictlyNull(cur) == cur.t = "null"

\* cur == null
IsNullish(cur) == cur.t \in {"undefined", "null"}

RECURSIVE GetLoop(_, _, _, _)
GetLoop(h, cur, segs, i) ==
  IF i > Len(segs) THEN cur
  ELSE IF IsNullish(cur) THEN Undef
  ELSE LET nxt == GetProp(h, cur, ToPropertyKey(segs[i]))
       IN  IF nxt = TypeError THEN TypeError ELSE GetLoop(h, nxt, segs, i + 1)

\* the value returned, or TypeError when the call raises
getValueAtPath(h, root, path) == GetLoop(h, root, path.segs, 1)

----------------------------------------------------------------------------
(* Documents as plain trees, and their allocation in the heap              *)

ArrayTree(e) == [t |-> "array", e |-> e]
ObjectTree(k, v) == [t |-> "object", k |-> k, v |-> v]

RECURSIVE DefineAll(_, _, _)
DefineAll(node, ks, vs) ==
  IF ks = <<>> THEN node
  ELSE DefineAll(SetOwn(node, ToPropertyKey(StrStep(Head(ks))), Head(vs)), Tail(ks), Tail(vs))

\* the objects a tree stands for, each newly allocated (what JSON.parse
\* and an object or array literal do)
RECURSIVE Load(_, _)
RECURSIVE LoadSeq(_, _)
LoadSeq(h, ts) ==
  IF ts = <<>> THEN [heap |-> h, vals |-> <<>>]
  ELSE LET a == Load(h, Head(ts))
           b == LoadSeq(a.heap, Tail(ts))
       IN  [heap |-> b.heap, vals |-> <<a.val>> \o b.vals]

Load(h, tr) ==
  IF tr.t = "array"
  THEN LET c == LoadSeq(h, tr.e)
       IN  [heap |-> Append(c.heap, ArrayNode(c.vals)), val |-> Ref(Len(c.heap) + 1)]
  ELSE IF tr.t = "object"
  THEN LET c == LoadSeq(h, tr.v)
       IN  [heap |-> Append(c.heap, DefineAll(EmptyObject, tr.k, c.vals)),
            val |-> Ref(Len(c.heap) + 1)]
  ELSE [heap |-> h, val |-> tr]

\* the content of a value, identities forgotten: two values are
\* structurally equal when their snapshots are equal.  A slot reads as
\* what arr[i] returns; properties are compared by key, not by order.
RECURSIVE Snap(_, _)
Snap(h, v) ==
  IF ~IsRef(v) THEN v
  ELSE LET node == h[v.id]
           ks == IF node.kind = "array" THEN node.keys ELSE OwnKeys(node)
       IN  [t |-> node.kind,
            e |-> [j \in 1..Len(node.elems) |-> Snap(h, OwnGet(node, Idx(j - 1)))],
            f |-> [k \in { ks[j] : j \in 1..Len(ks) } |-> Snap(h, OwnGet(node, k))]]

----------------------------------------------------------------------------
(* JSON text: a sequence of tokens                                         *)

\* the indentation JSON.stringify(updated, null, 2) is given
Indent == 2

Tok(k) == [k |-> k, n |-> 0, s |-> <<>>]
NumTok(n) == [k |-> "number", n |-> n, s |-> <<>>]
StrTok(s) == [k |-> "string", n |-> 0, s |-> s]
\* a line break followed by n spaces
Newline(n) == [k |-> "newline", n |-> n, s |-> <<>>]
Space == Tok(" ")
\* letters outside any string: no JSON token
Word(s) == [k |-> "word", n |-> 0, s |-> s]

\* JSON.stringify(value, null, 2) of a value at nesting depth d.  A hole
\* or undefined in an array is written null, a property whose value is
\* undefined is left out, the named properties of an array are not
\* written.
RECURSIVE Ser(_, _, _)
\* the slip of writing only the slots that were assigned
ArrayItemsAssigned(node) == SelectSeq(node.elems, LAMBDA x : x # Hole)

\* the slots of an array that are written: all of them, holes included
ArrayItems(node) == node.elems

RECURSIVE SerItems(_, _, _, _)
RECURSIVE SerProps(_, _, _, _, _)
SerItems(h, vals, d, first) ==
  IF vals = <<>> THEN <<>>
  ELSE (IF first THEN <<>> ELSE <<Tok(",")>>)
         \o <<Newline(d * Indent)>> \o Ser(h, Head(vals), d)
         \o SerItems(h, Tail(vals), d, FALSE)

SerProps(h, keys, vals, d, first) ==
  IF keys = <<>> THEN <<>>
  ELSE (IF first THEN <<>> ELSE <<Tok(",")>>)
         \o <<Newline(d * Indent), StrTok(KeyStr(Head(keys))), Tok(":"), Space>>
         \o Ser(h, Head(vals), d)
         \o SerProps(h, Tail(keys), Tail(vals), d, FALSE)

Ser(h, v, d) ==
  CASE v.t = "null" -> <<Tok("null")>>
    [] v.t = "number" -> <<NumTok(v.n)>>
    [] v.t = "boolean" -> <<Tok(IF v.b THEN "true" ELSE "false")>>
    [] v.t = "string" -> <<StrTok(v.s)>>
    [] v.t = "ref" /\ h[v.id].kind = "array" ->
         IF ArrayItems(h[v.id]) = <<>> THEN <<Tok("["), Tok("]")>>
         ELSE <<Tok("[")>> \o SerItems(h, ArrayItems(h[v.id]), d + 1, TRUE)
                \o <<Newline(d * Indent), Tok("]")>>
    [] v.t = "ref" /\ h[v.id].kind = "object" ->
         LET live == { j \in 1..Len(h[v.id].keys) : h[v.id].vals[j] # Undef }
             ks == SelectSeq(h[v.id].keys, LAMBDA k : KeyPos(h[v.id], k) \in live)
             vs == [j \in 1..Len(ks) |-> OwnGet(h[v.id], ks[j])]
         IN  IF ks = <<>> THEN <<Tok("{"), Tok("}")>>
             ELSE <<Tok("{")>> \o SerProps(h, ks, vs, d + 1, TRUE)
                    \o <<Newline(d * Indent), Tok("}")>>
    [] OTHER -> <<Tok("null")>>

JSONstringify(h, v) == Ser(h, v, 0)

IsWhitespace(tk) == tk.k \in {"newline", " "}

RECURSIVE SkipWs(_)
SkipWs(ts) ==
  IF ts # <<>> /\ IsWhitespace(Head(ts)) THEN SkipWs(Tail(ts)) ELSE ts

\* the outcome of a parse: a tree and the tokens left, or a SyntaxError
Parsed(tree, rest) == [ok |-> TRUE, tree |-> tree, rest |-> rest]
SyntaxError == [ok |-> FALSE, tree |-> Undef, rest |-> <<>>]

NextIs(ts, k) == ts # <<>> /\ Head(ts).k = k

\* JSON.parse: a recursive descent over the tokens
RECURSIVE ParseValue(_)
RECURSIVE ParseElements(_, _)
RECURSIVE ParseMembers(_, _, _)
ParseElements(ts, acc) ==
  LET v == ParseValue(ts)
      r == SkipWs(v.rest)
  IN  IF ~v.ok THEN SyntaxError
      ELSE IF NextIs(r, ",") THEN ParseElements(Tail(r), Append(acc, v.tree))
      ELSE IF NextIs(r, "]") THEN Parsed(ArrayTree(Append(acc, v.tree)), Tail(r))
      ELSE SyntaxError

ParseMembers(ts0, ks, vs) ==
  LET ts == SkipWs(ts0)
      c == SkipWs(Tail(ts))
      v == ParseValue(Tail(c))
      r == SkipWs(v.rest)
  IN  IF ~NextIs(ts, "string") THEN SyntaxError
      ELSE IF ~NextIs(c, ":") THEN SyntaxError
      ELSE IF ~v.ok THEN SyntaxError
      ELSE IF NextIs(r, ",")
           THEN ParseMembers(Tail(r), Append(ks, Head(ts).s), Append(vs, v.tree))
      ELSE IF NextIs(r, "}")
           THEN Parsed(ObjectTree(Append(ks, Head(ts).s), Append(vs, v.tree)), Tail(r))
      ELSE SyntaxError

ParseValue(ts0) ==
  LET ts == SkipWs(ts0)
      r == SkipWs(Tail(ts))
  IN  IF ts = <<>> THEN SyntaxError
      ELSE CASE Head(ts).k = "null" -> Parsed(Null, Tail(ts))
             [] Head(ts).k = "true" -> Parsed(Bool(TRUE), Tail(ts))
             [] Head(ts).k = "false" -> Parsed(Bool(FALSE), Tail(ts))
             [] Head(ts).k = "number" -> Parsed(Num(Head(ts).n), Tail(ts))
             [] Head(ts).k = "string" -> Parsed(Str(Head(ts).s), Tail(ts))
             [] Head(ts).k = "[" ->
                  IF NextIs(r, "]") THEN Parsed(ArrayTree(<<>>), Tail(r))
                  ELSE ParseElements(r, <<>>)
             [] Head(ts).k = "{" ->
                  IF NextIs(r, "}") THEN Parsed(ObjectTree(<<>>, <<>>), Tail(r))
                  ELSE ParseMembers(r, <<>>, <<>>)
             [] OTHER -> SyntaxError

JSONparse(text) ==
  LET v == ParseValue(text)
  IN  IF v.ok /\ SkipWs(v.rest) = <<>> THEN v ELSE SyntaxError

\* the text "{}"
EmptyObjectText == <<Tok("{"), Tok("}")>>
\* the text ""
EmptyText == <<>>

----------------------------------------------------------------------------
(* The field editor: text typed into a draft, and coerceLike                *)

Uppers ==
  <<"A", "B", "C", "D", "E", "F", "G", "H", "I", "J", "K", "L", "M",
    "N", "O", "P", "Q", "R", "S", "T", "U", "V", "W", "X", "Y", "Z">>

Lowers ==
  <<"a", "b", "c", "d", "e", "f", "g", "h", "i", "j", "k", "l", "m",
    "n", "o", "p", "q", "r", "s", "t", "u", "v", "w", "x", "y", "z">>

LowerChar(c) ==
  IF \E j \in 1..26 : Uppers[j] = c
  THEN Lowers[CHOOSE j \in 1..26 : Uppers[j] = c]
  ELSE c

\* s.toLowerCase()
ToLowerCase(s) == [j \in 1..Len(s) |-> LowerChar(s[j])]

IsSpaceChar(c) == c \in {" ", "\n"}

RECURSIVE TrimStart(_)
TrimStart(s) ==
  IF s # <<>> /\ IsSpaceChar(s[1]) THEN TrimStart(Tail(s)) ELSE s

RECURSIVE TrimEnd(_)
TrimEnd(s) ==
  IF s # <<>> /\ IsSpaceChar(s[Len(s)])
  THEN TrimEnd(SubSeq(s, 1, Len(s) - 1))
  ELSE s

\* s.trim()
Trim(s) == TrimEnd(TrimStart(s))

AllDigits(s) == Len(s) >= 1 /\ \A j \in 1..Len(s) : IsDigit(s[j])

\* what Number(text) gives when the text is not a numeric literal
NaN == [t |-> "number", nan |-> TRUE]

IsNaN(v) == v.t = "number" /\ "nan" \in DOMAIN v

\* Number(text): surrounding white space is dropped, the empty text is 0,
\* an optionally signed run of decimal digits is its value, and anything
\* else of the alphabet drawn here (letters, digits, sign, space) is NaN
StringToNumber(s) ==
  LET t == Trim(s)
  IN  IF t = <<>> THEN Num(0)
      ELSE IF AllDigits(t) THEN Num(StrNum(t))
      ELSE IF t[1] = "-" /\ AllDigits(Tail(t)) THEN Num(0 - StrNum(Tail(t)))
      ELSE IF t[1] = "+" /\ AllDigits(Tail(t)) THEN Num(StrNum(Tail(t)))
      ELSE NaN

\* String(v) of a primitive
StringOf(v) ==
  CASE v.t = "null" -> <<"n", "u", "l", "l">>
    [] v.t = "undefined" -> <<"u", "n", "d", "e", "f", "i", "n", "e", "d">>
    [] v.t = "boolean" ->
         IF v.b THEN <<"t", "r", "u", "e">> ELSE <<"f", "a", "l", "s", "e">>
    [] v.t = "number" ->
         IF IsNaN(v) THEN <<"N", "a", "N">>
         ELSE IF v.n < 0 THEN <<"-">> \o NumStr(0 - v.n)
         ELSE NumStr(v.n)
    [] v.t = "string" -> v.s

\* v === null || ["string", "number", "boolean"].includes(typeof v)
IsEditablePrimitive(v) == v.t \in {"null", "string", "number", "boolean"}

\* coerceLike without the fallback to the original
coerceLikeNoFallback(orig, input) ==
  CASE orig.t = "number" -> StringToNumber(input)
    [] orig.t = "boolean" -> Bool(ToLowerCase(Trim(input)) = StringOf(Bool(TRUE)))
    [] orig.t = "null" ->
         IF ToLowerCase(Trim(input)) = StringOf(Null) THEN Null ELSE Str(input)
    [] OTHER -> Str(input)

\* coerceLike that keeps a null original on any other text
coerceLikeNullKept(orig, input) ==
  CASE orig.t = "number" ->
         IF IsNaN(StringToNumber(input)) THEN orig ELSE StringToNumber(input)
    [] orig.t = "boolean" ->
         LET t == ToLowerCase(Trim(input))
         IN  IF t = StringOf(Bool(TRUE)) THEN Bool(TRUE)
             ELSE IF t = StringOf(Bool(FALSE)) THEN Bool(FALSE)
             ELSE orig
    [] orig.t = "null" -> Null
    [] OTHER -> Str(input)

\* coerceLike(orig, input)
coerceLike(orig, input) ==
  CASE orig.t = "number" ->
         LET n == StringToNumber(input)
         IN  IF IsNaN(n) THEN orig ELSE n
    [] orig.t = "boolean" ->
         LET t == ToLowerCase(Trim(input))
         IN  IF t = StringOf(Bool(TRUE)) THEN Bool(TRUE)
             ELSE IF t = StringOf(Bool(FALSE)) THEN Bool(FALSE)
             ELSE orig
    [] orig.t = "null" ->
         LET t == ToLowerCase(Trim(input))
         IN  IF t = StringOf(Null) THEN Null ELSE Str(input)
    [] OTHER -> Str(input)

----------------------------------------------------------------------------
(* State                                                                   *)

VARIABLES
  \* the navigation primitives, called on drawn arguments
  heap,      \* the objects that exist
  D,         \* the document passed as root
  P,         \* the path
  V,         \* the value passed as next
  callHeap,  \* the heap when updateValueAtPath was called
  R,         \* what updateValueAtPath(D, P, V) returned
  R2,        \* what updateValueAtPath(R, P, V) returned
  G,         \* what getValueAtPath returned
  pc,        \* which calls have been made
  \* the useJson store and what its collaborators were handed
  json,        \* the stored text
  loading,     \* the loading flag
  graph,       \* the last call the graph store received
  file,        \* the last call the file store received
  graphCalls,  \* how many calls the graph store received
  fileCalls,   \* how many calls the file store received
  jsonGot,     \* what getJson() returned last
  last,        \* the last store operation called, and the store before it
  mutated,     \* a setJson, a clear or a committing updateAtPath has run
  ops,         \* how many store operations have been called
  \* coerceLike and the assembly of nextObj, called on drawn arguments
  cOrig,     \* the original value of the field, or the current sub-value
  cInput,    \* the draft text, or the drafts by key
  cOut,      \* what coerceLike(cOrig, cInput) returned, or nextObj
  cpc,       \* which call is to be made, or has been made
  \* the field editor (NodeModal) and the selection of the graph store
  selectedNode,  \* useGraph: the selected node (nodeData)
  opened,        \* the opened prop of the modal
  isEditing,     \* useState: edit mode
  textDraft,     \* useState: the draft text of raw mode
  fieldDrafts,   \* useState: the draft texts of structured mode, by key
  timers,        \* the callbacks setTimeout(..., 0) has queued
  updCalls,      \* how many times the editor has called updateAtPath
  edLast,        \* the last event of the editor, and the state before it
  events         \* how many events have been handled

navVars == <<heap, D, P, V, callHeap, R, R2, G, pc>>

storeVars ==
  <<json, loading, graph, file, graphCalls, fileCalls, jsonGot, last, mutated, ops>>

coerceVars == <<cOrig, cInput, cOut, cpc>>

edVars ==
  <<selectedNode, opened, isEditing, textDraft, fieldDrafts, timers, updCalls,
    edLast, events>>

vars == <<navVars, storeVars, coerceVars, edVars>>

----------------------------------------------------------------------------
(* The useJson store                                                       *)

\* what the collaborators receive
NoCall == [op |-> "none", json |-> EmptyText, skipUpdate |-> FALSE]
\* useGraph.getState().setGraph(json)
setGraph(text) == [op |-> "setGraph", json |-> text, skipUpdate |-> FALSE]
\* useGraph.getState().clearGraph()
clearGraph == [op |-> "clearGraph", json |-> EmptyText, skipUpdate |-> FALSE]
\* the slip of leaving skipUpdate out of the call
setContentsNoSkip(text) == [op |-> "setContents", json |-> text, skipUpdate |-> FALSE]

\* useFile.getState().setContents({ contents, skipUpdate: true })
setContents(text) == [op |-> "setContents", json |-> text, skipUpdate |-> TRUE]

\* the store as it is before an operation
StoreNow ==
  [json |-> json, loading |-> loading, graph |-> graph, file |-> file,
   graphCalls |-> graphCalls, fileCalls |-> fileCalls]

Called(op, text, path, next) ==
  [op |-> op, text |-> text, path |-> path, next |-> next, before |-> StoreNow]

\* the state create() builds from initialStates
StoreInit ==
  /\ json = EmptyObjectText
  /\ loading = TRUE
  /\ graph = NoCall
  /\ file = NoCall
  /\ graphCalls = 0
  /\ fileCalls = 0
  /\ jsonGot = EmptyText
  /\ last = [op |-> "none", text |-> EmptyText, path |-> NotAPath, next |-> Undef,
             before |-> [json |-> EmptyObjectText, loading |-> TRUE, graph |-> NoCall,
                         file |-> NoCall, graphCalls |-> 0, fileCalls |-> 0]]
  /\ mutated = FALSE
  /\ ops = 0

\* the body of setJson
setJson(text) ==
  /\ json' = text
  /\ loading' = FALSE
  /\ graph' = setGraph(text)
  /\ graphCalls' = graphCalls + 1
  /\ file' = setContents(text)
  /\ fileCalls' = fileCalls + 1

\* get().json || "{}"
CurrentText(text) == IF text = EmptyText THEN EmptyObjectText ELSE text

\* the slip of catch { obj = {} }: the update is applied to an empty map
OnSyntaxErrorStartOver(text, path, next) ==
  LET obj == Load(<<>>, ObjectTree(<<>>, <<>>))
      arg == Load(obj.heap, next)
      updated == updateValueAtPath(arg.heap, obj.val, path, arg.val)
  IN  [commit |-> TRUE, text |-> JSONstringify(updated.heap, updated.val)]

\* catch { return; }: nothing is committed
OnSyntaxError(text, path, next) == [commit |-> FALSE, text |-> text]

\* the slip of JSON.stringify(obj, null, 2): the document read is written
\* back
CommitTextOfSource(h, obj, updated) == JSONstringify(h, obj)

\* JSON.stringify(updated, null, 2)
CommitText(h, obj, updated) == JSONstringify(h, updated)

\* what updateAtPath does with the stored text: whether it calls setJson,
\* and with which text
updateAtPathOutcome(text, path, next) ==
  LET parsed == JSONparse(CurrentText(text))
      obj == Load(<<>>, parsed.tree)
      arg == Load(obj.heap, next)
      updated == updateValueAtPath(arg.heap, obj.val, path, arg.val)
  IN  IF ~parsed.ok THEN OnSyntaxError(text, path, next)
      ELSE [commit |-> TRUE, text |-> CommitText(updated.heap, obj.val, updated.val)]

\* the texts, paths and values the store is called with
\* {"a":{"b":1,"c":"x"}}
ExampleText ==
  << Tok("{"), StrTok(sA), Tok(":"), Tok("{"), StrTok(sB), Tok(":"), NumTok(1),
     Tok(","), StrTok(sC), Tok(":"), StrTok(sX), Tok("}"), Tok("}") >>

\* {not json
BadText == << Tok("{"), Word(<<"n", "o", "t">>), Space, Word(<<"j", "s", "o", "n">>) >>

StoreDocs ==
  { ArrayTree(<< Num(7), ArrayTree(<< Num(7) >>) >>),
    Str(<<"x", "y">>),
    ObjectTree(<<sA>>, << ArrayTree(<< Null >>) >>) }

PrettyText(tr) == JSONstringify(Load(<<>>, tr).heap, Load(<<>>, tr).val)

StoreTexts == { ExampleText, BadText, EmptyText } \cup { PrettyText(d) : d \in StoreDocs }

StorePaths ==
  { PathOf(<<>>),
    PathOf(<<StrStep(sA), StrStep(sB)>>),
    PathOf(<<StrStep(sX)>>),
    PathOf(<<NumStep(0)>>),
    PathOf(<<StrStep(sA), NumStep(0)>>),
    PathOf(<<NumStep(1), StrStep(sA)>>),
    PathOf(<<StrStep(sA), StrStep(sB), NumStep(2)>>),
    PathOf(<<NumStep(3)>>) }

StoreVals == { Num(1), Num(2), ArrayTree(<< Num(7) >>) }

\* the navigation calls are not part of a run of the store
NavIdle ==
  /\ heap = <<>>
  /\ D = Undef
  /\ P = NotAPath
  /\ V = Undef
  /\ callHeap = <<>>
  /\ R = Undef
  /\ R2 = Undef
  /\ G = Undef
  /\ pc = "idle"

\* no node of the graph is selected
NoNode == [some |-> FALSE, id |-> <<>>, path |-> PathOf(<<>>), text |-> <<>>, gen |-> 0]

\* drafts by key: the keys in insertion order, and their texts
Drafts(ks, vs) == [k |-> ks, v |-> vs]

NoDrafts == Drafts(<<>>, <<>>)

\* the text "{}"
EmptyObjectChars == <<"{", "}">>

NoEvent == [ev |-> "none"]

\* the editor as mounted on the initial store: closed, nothing selected,
\* the drafts of the empty document
EdIdle ==
  /\ selectedNode = NoNode
  /\ opened = FALSE
  /\ isEditing = FALSE
  /\ textDraft = EmptyObjectChars
  /\ fieldDrafts = NoDrafts
  /\ timers = <<>>
  /\ updCalls = 0
  /\ edLast = NoEvent
  /\ events = 0

\* coerceLike is not called in a run of the store
CoerceIdle ==
  /\ cOrig = Undef
  /\ cInput = <<>>
  /\ cOut = Undef
  /\ cpc = "idle"

Init == StoreInit /\ NavIdle /\ CoerceIdle /\ EdIdle

\* setJson(text)
SetJson(text) ==
  /\ ops < MaxOps
  /\ setJson(text)
  /\ last' = Called("setJson", text, NotAPath, Undef)
  /\ mutated' = TRUE
  /\ ops' = ops + 1
  /\ UNCHANGED <<jsonGot, navVars, coerceVars, edVars>>

\* getJson()
GetJson ==
  /\ ops < MaxOps
  /\ jsonGot' = json
  /\ last' = Called("getJson", EmptyText, NotAPath, Undef)
  /\ ops' = ops + 1
  /\ UNCHANGED <<json, loading, graph, file, graphCalls, fileCalls, mutated, navVars, coerceVars, edVars>>

\* clear()
Clear ==
  /\ ops < MaxOps
  /\ json' = EmptyText
  /\ loading' = FALSE
  /\ graph' = clearGraph
  /\ graphCalls' = graphCalls + 1
  /\ file' = setContents(EmptyText)
  /\ fileCalls' = fileCalls + 1
  /\ last' = Called("clear", EmptyText, NotAPath, Undef)
  /\ mutated' = TRUE
  /\ ops' = ops + 1
  /\ UNCHANGED <<jsonGot, navVars, coerceVars, edVars>>

\* updateAtPath(path, next), as the store and its collaborators see it
updateAtPath(path, next) ==
  /\ LET out == updateAtPathOutcome(json, path, next)
     IN  IF out.commit
         THEN setJson(out.text) /\ mutated' = TRUE
         ELSE UNCHANGED <<json, loading, graph, file, graphCalls, fileCalls, mutated>>
  /\ last' = Called("updateAtPath", EmptyText, path, next)

\* updateAtPath(path, next)
UpdateAtPath(path, next) ==
  /\ ops < MaxOps
  /\ updateAtPath(path, next)
  /\ ops' = ops + 1
  /\ UNCHANGED <<jsonGot, navVars, coerceVars, edVars>>

Next ==
  \/ \E text \in StoreTexts : SetJson(text)
  \/ GetJson
  \/ Clear
  \/ \E path \in StorePaths, next \in StoreVals : UpdateAtPath(path, next)

Spec == Init /\ [][Next]_vars

----------------------------------------------------------------------------
(* The arguments drawn for the navigation primitives                       *)

NavPrims == { Null, Num(7), Str(<<"x", "y">>) }

SeqsUpTo(S, n) == UNION { [1..m -> S] : m \in 0..n }

\* sequences of up to two elements
ArraysOver(S) == { ArrayTree(e) : e \in SeqsUpTo(S, 2) }

\* maps over the keys a and b
ObjectsOver(S) ==
  UNION { { ObjectTree(ks, vs) : vs \in [1..Len(ks) -> S] } :
          ks \in { <<>>, <<sA>>, <<sB>>, <<sA, sB>> } }

NavInner == NavPrims \cup ArraysOver({ Num(7) }) \cup ObjectsOver({ Num(7) })

\* documents nested three deep, with containers beside every step
NavDeep ==
  { ObjectTree(<<sA, sB>>,
      << ObjectTree(<<sA, sB>>,
           << ObjectTree(<<sA, sB>>, << Num(7), ObjectTree(<<>>, <<>>) >>),
              ArrayTree(<< Num(7) >>) >>),
         ArrayTree(<< Null >>) >>),
    ArrayTree(
      << ArrayTree(<< ArrayTree(<< Num(7), ObjectTree(<<sA>>, << Num(7) >>) >>),
                      ObjectTree(<<>>, <<>>) >>),
         ObjectTree(<<sB>>, << Null >>) >>),
    ObjectTree(<<sA>>,
      << ArrayTree(<< ObjectTree(<<sA, sB>>, << ArrayTree(<<>>), Num(7) >>),
                      ArrayTree(<< Num(7) >>) >>) >>) }

\* the absent document, the primitives, the documents of depth up to two
\* and the deep ones
NavDocs ==
  { Undef, Bool(TRUE) } \cup NavPrims \cup ArraysOver(NavInner)
    \cup ObjectsOver(NavInner) \cup NavDeep

NavSteps == { StrStep(sA), NumStep(0), NumStep(1) }

\* the path and the value of the extension example: ["a", "b"] and 5
ExtensionPath == PathOf(<<StrStep(sA), StrStep(sB)>>)
ExtensionValue == Num(5)

NavPaths ==
  { NotAPath, ExtensionPath }
    \cup { PathOf(segs) : segs \in SeqsUpTo(NavSteps, MaxPathLen) }

NavVals == { Num(9), ExtensionValue, ObjectTree(<<>>, <<>>), ArrayTree(<<Num(7)>>) }

----------------------------------------------------------------------------
(* The navigation primitives as operations                                 *)

NavInit ==
  \E d \in NavDocs, p \in NavPaths, x \in NavVals :
    LET a == Load(<<>>, d)
        b == Load(a.heap, x)
    IN  /\ heap = b.heap
        /\ D = a.val
        /\ V = b.val
        /\ P = p
        /\ callHeap = <<>>
        /\ R = Undef
        /\ R2 = Undef
        /\ G = Undef
        /\ pc = "ready"
        /\ StoreInit
        /\ CoerceIdle
        /\ EdIdle

\* R = updateValueAtPath(D, P, V)
CallUpdate ==
  /\ pc = "ready"
  /\ LET u == updateValueAtPath(heap, D, P, V)
     IN  /\ heap' = u.heap
         /\ R' = u.val
  /\ callHeap' = heap
  /\ pc' = "updated"
  /\ UNCHANGED <<D, P, V, R2, G, storeVars, coerceVars, edVars>>

\* G = getValueAtPath(D, P)
CallGet ==
  /\ pc = "ready"
  /\ P.isArray
  /\ G' = getValueAtPath(heap, D, P)
  /\ pc' = "got"
  /\ UNCHANGED <<heap, D, P, V, callHeap, R, R2, storeVars, coerceVars, edVars>>

\* G = getValueAtPath(R, P)
CallGetAfterUpdate ==
  /\ pc = "updated"
  /\ P.isArray
  /\ G' = getValueAtPath(heap, R, P)
  /\ pc' = "reread"
  /\ UNCHANGED <<heap, D, P, V, callHeap, R, R2, storeVars, coerceVars, edVars>>

\* R2 = updateValueAtPath(R, P, V)
CallUpdateAgain ==
  /\ pc = "updated"
  /\ LET u == updateValueAtPath(heap, R, P, V)
     IN  /\ heap' = u.heap
         /\ R2' = u.val
  /\ pc' = "twice"
  /\ UNCHANGED <<D, P, V, callHeap, R, G, storeVars, coerceVars, edVars>>

NavNext == CallUpdate \/ CallGet \/ CallGetAfterUpdate \/ CallUpdateAgain

NavSpec == NavInit /\ [][NavNext]_vars

----------------------------------------------------------------------------
(* Properties of the navigation primitives (under NavSpec)                 *)

\* what root[s1][s2]... reads, a step from null or undefined reading as
\* undefined
RECURSIVE RawAt(_, _, _)
RawAt(h, v, segs) ==
  IF segs = <<>> THEN v
  ELSE RawAt(h, GetPropOpt(h, v, ToPropertyKey(Head(segs))), Tail(segs))

Prefix(i) == SubSeq(P.segs, 1, i)

\* updateValueAtPath(D, P, V) has returned R
Updated == pc \in {"updated", "reread", "twice"}

ProperPath == P.isArray /\ Len(P.segs) >= 1

\* the node of D and the node of R at the first i steps of P
SrcNode(i) == RawAt(callHeap, D, Prefix(i))
ResNode(i) == RawAt(heap, R, Prefix(i))

KeySet(node) == { OwnKeys(node)[j] : j \in 1..Len(OwnKeys(node)) }

\* C1: structural sharing.  For a path of length >= 1, at every node of D
\* on the root-to-P chain, every property other than the next step of P
\* holds in the result the very same value (the same object identity, or
\* the same primitive) as in D.
C1_StructuralSharing ==
  (Updated /\ ProperPath) =>
    \A i \in 0..(Len(P.segs) - 1) :
      IsRef(SrcNode(i)) =>
        /\ IsRef(ResNode(i))
        /\ \A k \in KeySet(callHeap[SrcNode(i).id]) :
             k # ToPropertyKey(P.segs[i + 1]) =>
               OwnGet(heap[ResNode(i).id], k) = OwnGet(callHeap[SrcNode(i).id], k)

\* a container that hangs off the second node of the chain is shared
C1_Witness ==
  /\ pc = "updated"
  /\ ProperPath
  /\ Len(P.segs) >= 2
  /\ IsRef(SrcNode(1))
  /\ \E k \in KeySet(callHeap[SrcNode(1).id]) :
       /\ k # ToPropertyKey(P.segs[2])
       /\ IsRef(OwnGet(callHeap[SrcNode(1).id], k))
       /\ OwnGet(heap[ResNode(1).id], k) = OwnGet(callHeap[SrcNode(1).id], k)

\* every proper prefix of P leads, in D, to a container or to nothing
NoPrimitiveAncestor ==
  \A i \in 0..(Len(P.segs) - 1) : IsRef(SrcNode(i)) \/ SrcNode(i) = Undef

\* C2: read-after-write.  For a non-empty path that passes through no
\* primitive ancestor in D, getValueAtPath(updateValueAtPath(D, P, V), P)
\* is V.
C2_ReadAfterWrite ==
  (pc = "reread" /\ ProperPath /\ NoPrimitiveAncestor) => G = V

\* a write two steps deep that changed what the path reads
C2_Witness ==
  /\ pc = "reread"
  /\ ProperPath
  /\ NoPrimitiveAncestor
  /\ Len(P.segs) >= 2
  /\ IsRef(SrcNode(1))
  /\ RawAt(callHeap, D, P.segs) # V
  /\ G = V

\* C6: the input is never mutated.  Every object that existed when
\* updateValueAtPath was called has the content it had then, and every
\* node of the result on the chain from the root to the parent of the
\* written position is an object allocated by the call.
C6_InputNotMutated ==
  Updated =>
    /\ \A id \in 1..Len(callHeap) : heap[id] = callHeap[id]
    /\ ProperPath =>
         \A i \in 0..(Len(P.segs) - 1) :
           /\ IsRef(ResNode(i))
           /\ ResNode(i).id > Len(callHeap)
           /\ ResNode(i) # SrcNode(i)

\* two existing containers were cloned and the write changed the content
C6_Witness ==
  /\ pc = "updated"
  /\ ProperPath
  /\ Len(P.segs) >= 2
  /\ IsRef(SrcNode(0))
  /\ IsRef(SrcNode(1))
  /\ RawAt(callHeap, D, P.segs) # V
  /\ Snap(heap, R) # Snap(heap, D)

\* C7: idempotence.  updateValueAtPath(updateValueAtPath(D, P, V), P, V)
\* is structurally equal to updateValueAtPath(D, P, V).
C7_Idempotent == (pc = "twice") => Snap(heap, R2) = Snap(heap, R)

\* the second call built a new root over a path of two or more steps
C7_Witness ==
  /\ pc = "twice"
  /\ ProperPath
  /\ Len(P.segs) >= 2
  /\ IsRef(R)
  /\ R2 # R
  /\ Snap(heap, R) # Snap(heap, D)

\* a step of P is taken from null or undefined
StepsFromNullish ==
  \E i \in 0..(Len(P.segs) - 1) : RawAt(heap, D, Prefix(i)).t \in {"null", "undefined"}

\* C8: absence safety.  getValueAtPath(D, P) never raises; it returns D
\* for the empty path, undefined when a step has to be taken from null or
\* undefined, and otherwise the value reached step by step.
C8_AbsenceSafety ==
  (pc = "got") =>
    /\ G # TypeError
    /\ (P.segs = <<>> => G = D)
    /\ (StepsFromNullish => G = Undef)
    /\ G = RawAt(heap, D, P.segs)

\* the path runs into a null one step below the root, with steps left
C8_Witness ==
  /\ pc = "got"
  /\ Len(P.segs) >= 2
  /\ IsRef(D)
  /\ RawAt(heap, D, Prefix(1)) = Null
  /\ G = Undef

\* the result of the extension example: {a: {b: 5}}
ExtensionResult ==
  [t |-> "object", e |-> <<>>,
   f |-> [k \in {Key(sA)} |->
            [t |-> "object", e |-> <<>>, f |-> [j \in {Key(sB)} |-> ExtensionValue]]]]

\* C9: extension and container-type policy.  At every intermediate step
\* the result holds a new node that is a sequence exactly when D holds a
\* sequence there and a map otherwise; where D holds no container, the
\* new map holds nothing but the next step of the path; and
\* updateValueAtPath({}, ["a", "b"], 5) is {a: {b: 5}}.
C9_ExtensionPolicy ==
  (Updated /\ ProperPath) =>
    /\ \A i \in 1..(Len(P.segs) - 1) :
         /\ IsRef(ResNode(i))
         /\ heap[ResNode(i).id].kind =
              (IF IsArray(callHeap, SrcNode(i)) THEN "array" ELSE "object")
         /\ ~IsRef(SrcNode(i)) =>
              KeySet(heap[ResNode(i).id]) = { ToPropertyKey(P.segs[i + 1]) }
    /\ (Snap(callHeap, D) = Snap(<<EmptyObject>>, Ref(1))
          /\ P = ExtensionPath /\ V = ExtensionValue)
         => Snap(heap, R) = ExtensionResult

\* the path crosses a sequence of D and then a position D does not have,
\* with an index as the step that follows the missing position
C9_Witness ==
  /\ pc = "updated"
  /\ ProperPath
  /\ Len(P.segs) = 3
  /\ IsArray(callHeap, SrcNode(1))
  /\ SrcNode(2) = Undef
  /\ P.segs[3].num
  /\ heap[ResNode(1).id].kind = "array"
  /\ heap[ResNode(2).id].kind = "object"

\* C10: root replacement.  For the empty path, and for a path that is no
\* sequence, updateValueAtPath returns V itself, allocates nothing and
\* reads nothing of D.
C10_RootReplacement ==
  (Updated /\ ~ProperPath) => (R = V /\ heap = callHeap)

\* a container replaced a document that is a container
C10_Witness ==
  /\ pc = "updated"
  /\ P = PathOf(<<>>)
  /\ IsRef(D)
  /\ IsRef(V)
  /\ R = V
  /\ R # D

----------------------------------------------------------------------------
(* Properties of the store (under Spec)                                    *)

\* the last operation left the store and both collaborators as they were
StoreUntouched ==
  /\ json = last.before.json
  /\ loading = last.before.loading
  /\ graph = last.before.graph
  /\ file = last.before.file
  /\ graphCalls = last.before.graphCalls
  /\ fileCalls = last.before.fileCalls

\* C3 as stated: whenever the stored text does not deserialize,
\* updateAtPath leaves the text and the loading flag unchanged and calls
\* neither collaborator.
C3_AnyUnparsableText ==
  (last.op = "updateAtPath" /\ ~JSONparse(last.before.json).ok) => StoreUntouched

\* C3 amended: whenever the stored text is not empty and does not
\* deserialize, updateAtPath leaves the text and the loading flag
\* unchanged and calls neither collaborator (the empty text is read as
\* "{}" and updated).
C3_BadStateNoOp ==
  (/\ last.op = "updateAtPath"
   /\ last.before.json # EmptyText
   /\ ~JSONparse(last.before.json).ok) => StoreUntouched

\* updateAtPath(["x"], 1) was called on the text {not json
C3_Witness ==
  /\ last.op = "updateAtPath"
  /\ last.before.json = BadText
  /\ last.path = PathOf(<<StrStep(sX)>>)
  /\ last.next = Num(1)
  /\ json = BadText
  /\ graph = setGraph(BadText)
  /\ graphCalls = 1

\* the text the graph store holds after its last call: clearGraph()
\* resets it to the empty state
GraphText == IF graph.op = "setGraph" THEN graph.json ELSE EmptyText

\* C4: store/collaborator agreement.  setJson(text) stores text verbatim,
\* clears loading and hands the text to setGraph and to setContents with
\* skipUpdate true; clear does so with the empty text (the graph store is
\* reset by clearGraph); once a mutation has run, after every operation
\* both collaborators hold the text getJson() returns.
C4_StoreAgreement ==
  /\ last.op = "setJson" =>
       /\ json = last.text
       /\ ~loading
       /\ graph = [op |-> "setGraph", json |-> last.text, skipUpdate |-> FALSE]
       /\ file = [op |-> "setContents", json |-> last.text, skipUpdate |-> TRUE]
       /\ graphCalls = last.before.graphCalls + 1
       /\ fileCalls = last.before.fileCalls + 1
  /\ last.op = "clear" =>
       /\ json = EmptyText
       /\ ~loading
       /\ graph.op = "clearGraph"
       /\ file = [op |-> "setContents", json |-> EmptyText, skipUpdate |-> TRUE]
       /\ graphCalls = last.before.graphCalls + 1
       /\ fileCalls = last.before.fileCalls + 1
  /\ last.op = "getJson" => jsonGot = json
  /\ mutated =>
       /\ graph.op \in {"setGraph", "clearGraph"}
       /\ GraphText = json
       /\ file.op = "setContents"
       /\ file.json = json
       /\ file.skipUpdate

\* a setJson, a clear and an updateAtPath that committed
C4_Witness ==
  /\ ops = 3
  /\ last.op = "updateAtPath"
  /\ last.before.graph.op = "clearGraph"
  /\ last.before.graphCalls = 2
  /\ json # EmptyText
  /\ graph = setGraph(json)
  /\ file.json = json

\* the children of a node of a tree, by property key
TreeKeys(tr) ==
  IF tr.t = "array" THEN { Idx(j - 1) : j \in 1..Len(tr.e) }
  ELSE IF tr.t = "object" THEN { ToPropertyKey(StrStep(tr.k[j])) : j \in 1..Len(tr.k) }
  ELSE {}

TreeChild(tr, k) ==
  IF k \notin TreeKeys(tr) THEN Undef
  ELSE IF tr.t = "array" THEN tr.e[k.n + 1]
  ELSE tr.v[CHOOSE j \in 1..Len(tr.k) : ToPropertyKey(StrStep(tr.k[j])) = k]

RECURSIVE TreeAt(_, _)
TreeAt(tr, q) == IF q = <<>> THEN tr ELSE TreeAt(TreeChild(tr, Head(q)), Tail(q))

\* the positions of a tree
RECURSIVE Positions(_)
Positions(tr) ==
  { <<>> } \cup UNION { { <<k>> \o q : q \in Positions(TreeChild(tr, k)) } : k \in TreeKeys(tr) }

IsPrefixOf(a, b) == Len(a) <= Len(b) /\ SubSeq(b, 1, Len(a)) = a

\* the document the last operation found in the store
DocBefore == JSONparse(last.before.json).tree

PathKeys == [j \in 1..Len(last.path.segs) |-> ToPropertyKey(last.path.segs[j])]

\* the pretty-printed text of updateValueAtPath(DocBefore, path, next)
UpdatedText ==
  LET d == Load(<<>>, DocBefore)
      n == Load(d.heap, last.next)
      u == updateValueAtPath(n.heap, d.val, last.path, n.val)
  IN  JSONstringify(u.heap, u.val)

\* the text of {"a":{"b":2,"c":"x"}}, indented by two
ExampleResultText ==
  << Tok("{"),
       Newline(2), StrTok(sA), Tok(":"), Space, Tok("{"),
         Newline(4), StrTok(sB), Tok(":"), Space, NumTok(2), Tok(","),
         Newline(4), StrTok(sC), Tok(":"), Space, StrTok(sX),
       Newline(2), Tok("}"),
     Newline(0), Tok("}") >>

ExamplePath == PathOf(<<StrStep(sA), StrStep(sB)>>)

\* C5: end-to-end update.  Whenever the stored text deserializes to D,
\* updateAtPath(P, v) leaves as stored text the pretty-printed text of
\* updateValueAtPath(D, P, v), committed through setJson; from
\* {"a":{"b":1,"c":"x"}}, updateAtPath(["a","b"], 2) gives
\* {"a":{"b":2,"c":"x"}}; every position of D that is neither a prefix of
\* P nor below P keeps an equal value.
C5_EndToEnd ==
  (last.op = "updateAtPath" /\ JSONparse(last.before.json).ok) =>
    /\ json = UpdatedText
    /\ PrettyText(JSONparse(json).tree) = json
    /\ ~loading
    /\ graph = [op |-> "setGraph", json |-> json, skipUpdate |-> FALSE]
    /\ file = [op |-> "setContents", json |-> json, skipUpdate |-> TRUE]
    /\ graphCalls = last.before.graphCalls + 1
    /\ fileCalls = last.before.fileCalls + 1
    /\ (last.before.json = ExampleText /\ last.path = ExamplePath /\ last.next = Num(2))
         => json = ExampleResultText
    /\ \A q \in Positions(DocBefore) :
         (~IsPrefixOf(q, PathKeys) /\ ~IsPrefixOf(PathKeys, q)) =>
           TreeAt(JSONparse(json).tree, q) = TreeAt(DocBefore, q)

\* the example of the specification
C5_Witness ==
  /\ last.op = "updateAtPath"
  /\ last.before.json = ExampleText
  /\ last.path = ExamplePath
  /\ last.next = Num(2)
  /\ json = ExampleResultText
  /\ TreeAt(JSONparse(json).tree, <<Key(sA), Key(sC)>>) = Str(sX)

----------------------------------------------------------------------------
(* coerceLike as an operation on drawn arguments                           *)

\* original values of a field
CoerceOrigs ==
  {Num(42), Num(0), Bool(TRUE), Bool(FALSE), Null, Str(<<"x">>), Str(<<"1", "7">>)}

\* draft texts
CoerceInputs ==
  { <<"1", "7">>, <<"a", "b", "c">>, <<>>, <<" ", "1", "7", " ">>,
    <<"-", "5">>, <<"1", "x">>, <<"4", "2">>, <<"x">>,
    <<"t", "r", "u", "e">>, <<" ", "T", "R", "U", "E", " ">>,
    <<"F", "a", "l", "s", "e">>, <<"f", "a", "l", "s", "e">>,
    <<"n", "u", "l", "l">>, <<" ", "N", "u", "l", "l">> }

CoerceInit ==
  /\ cOrig \in CoerceOrigs
  /\ cInput \in CoerceInputs
  /\ cOut = Undef
  /\ cpc = "ready"
  /\ StoreInit
  /\ NavIdle
  /\ EdIdle

\* cOut = coerceLike(cOrig, cInput)
CallCoerce ==
  /\ cpc = "ready"
  /\ cOut' = coerceLike(cOrig, cInput)
  /\ cpc' = "done"
  /\ UNCHANGED <<cOrig, cInput, navVars, storeVars, edVars>>

CoerceNext == CallCoerce

CoerceSpec == CoerceInit /\ [][CoerceNext]_vars

----------------------------------------------------------------------------
(* Properties of coerceLike                                                *)

Coerced == cpc = "done"

TextTrue == <<"t", "r", "u", "e">>
TextFalse == <<"f", "a", "l", "s", "e">>
TextNull == <<"n", "u", "l", "l">>

\* the draft read the way a boolean or a null original reads it
Folded == ToLowerCase(Trim(cInput))

\* the draft text does not match the pattern of the original's type
Mismatched ==
  CASE cOrig.t = "number" -> IsNaN(StringToNumber(cInput))
    [] cOrig.t = "boolean" -> Folded \notin {TextTrue, TextFalse}
    [] cOrig.t = "null" -> Folded # TextNull
    [] OTHER -> FALSE

\* C11: type-preserving coercion.  A numeric original takes the number the
\* draft parses to and is kept when the draft does not parse (42 with "17"
\* is 17, 42 with "abc" stays 42); a boolean original takes true or false
\* from the trimmed, case-folded draft and is kept on any other text; a
\* text original takes the draft verbatim; so the value committed for a
\* numeric or boolean original always has the runtime type of the original.
C11_TypePreservingCoercion ==
  Coerced =>
    /\ (cOrig = Num(42) /\ cInput = <<"1", "7">>) => cOut = Num(17)
    /\ (cOrig = Num(42) /\ cInput = <<"a", "b", "c">>) => cOut = Num(42)
    /\ cOrig.t = "number" =>
         cOut = (IF Mismatched THEN cOrig ELSE StringToNumber(cInput))
    /\ cOrig.t = "boolean" =>
         cOut = (IF Folded = TextTrue THEN Bool(TRUE)
                 ELSE IF Folded = TextFalse THEN Bool(FALSE)
                 ELSE cOrig)
    /\ cOrig.t = "string" => cOut = Str(cInput)
    /\ cOrig.t \in {"number", "boolean"} =>
         /\ cOut.t = cOrig.t
         /\ ~IsNaN(cOut)

C11_Witness ==
  /\ Coerced
  /\ cOrig = Num(42)
  /\ cInput = <<"a", "b", "c">>
  /\ cOut = Num(42)

\* C13 as stated: whatever the type of the original (number, boolean, null,
\* text), a draft that does not match the type's pattern commits the
\* original value unchanged.
C13_MismatchKeepsOriginal ==
  (Coerced /\ Mismatched) => cOut = cOrig

\* C13, amended: a mismatched draft commits the original unchanged when the
\* original is a number or a boolean; when the original is null, a draft
\* other than "null" commits the draft text itself; a text original has no
\* mismatch.
C13_MismatchByType ==
  (Coerced /\ Mismatched) =>
    /\ cOrig.t \in {"number", "boolean", "null"}
    /\ cOrig.t \in {"number", "boolean"} => cOut = cOrig
    /\ cOrig.t = "null" => cOut = Str(cInput)

C13_Witness ==
  /\ Coerced
  /\ Mismatched
  /\ cOrig = Null
  /\ cOut = Str(<<"a", "b", "c">>)

----------------------------------------------------------------------------
(* Properties of updateValueAtPath on a root that is no container          *)

\* D is null, a number, a boolean or a text
PrimitiveRoot == D.t \in {"null", "number", "boolean", "string"}

\* the map {k: V} for the one step k of P
SingleStepMap ==
  [t |-> "object", e |-> <<>>,
   f |-> [k \in {ToPropertyKey(P.segs[1])} |-> Snap(heap, V)]]

\* C14: non-container root.  When D is null, a number, a boolean or a text,
\* the clone of the root is an empty map, so updateValueAtPath(D, [k], V)
\* is exactly {k: V}.
C14_PrimitiveRootGivesSingleton ==
  (Updated /\ ProperPath /\ Len(P.segs) = 1 /\ PrimitiveRoot) =>
    Snap(heap, R) = SingleStepMap

\* C14 for the roots that are not texts
C14_NonTextRootGivesSingleton ==
  (Updated /\ ProperPath /\ Len(P.segs) = 1 /\ PrimitiveRoot /\ D.t # "string") =>
    Snap(heap, R) = SingleStepMap

\* a text root: the result also holds the characters of the text
C14_TextRootReached ==
  /\ Updated
  /\ ProperPath
  /\ P.segs = <<StrStep(sA)>>
  /\ D = Str(<<"x", "y">>)
  /\ KeySet(heap[R.id]) = {Idx(0), Idx(1), Key(sA)}

----------------------------------------------------------------------------
(* Reading back through the store what updateAtPath wrote                  *)

\* getValueAtPath(JSON.parse(getJson()), path) for the path of the last
\* operation, as a structure
ReadBack ==
  LET d == Load(<<>>, JSONparse(json).tree)
  IN  Snap(d.heap, getValueAtPath(d.heap, d.val, last.path))

\* the value the last operation was called with, as a structure
NextGiven ==
  LET n == Load(<<>>, last.next)
  IN  Snap(n.heap, n.val)

\* updateAtPath was called with a non-empty path on a text that deserializes
UpdatedThroughStore ==
  /\ last.op = "updateAtPath"
  /\ JSONparse(last.before.json).ok
  /\ Len(last.path.segs) >= 1

\* the node the document held where step i of the path is taken
NodeBeforeStep(i) == TreeAt(DocBefore, SubSeq(PathKeys, 1, i - 1))

\* step i of the path is a field name taken into a sequence of the document
NameIntoSequence(i) == ~PathKeys[i].i /\ NodeBeforeStep(i).t = "array"

\* C18 as stated: whenever the stored text deserializes, after
\* updateAtPath(P, v) with a non-empty P the value read at P from the
\* deserialized stored text equals v, whatever containers lie along P.
C18_ReadAfterWriteAnyShape ==
  UpdatedThroughStore => ReadBack = NextGiven

\* C18, amended: the same, for the paths that take no field-name step into
\* a sequence of the document (index steps into maps, indices beyond the
\* end of a sequence and steps through primitives included).
C18_ReadAfterWriteThroughStore ==
  (UpdatedThroughStore /\ \A i \in 1..Len(PathKeys) : ~NameIntoSequence(i))
    => ReadBack = NextGiven

\* an index beyond the end of a sequence: the slots in between are stored
\* as null and the value is read back
C18_Witness ==
  /\ UpdatedThroughStore
  /\ last.path = PathOf(<<NumStep(3)>>)
  /\ DocBefore.t = "array"
  /\ Len(DocBefore.e) = 2
  /\ JSONparse(json).tree.e[3] = Null
  /\ ReadBack = NextGiven

----------------------------------------------------------------------------
(* The field editor (NodeModal): texts                                      *)

\* The text of a draft is a sequence of characters.  JSON.parse reads it
\* through Lex; what JSON.stringify wrote is shown through Render.

Punctuation == {"{", "}", "[", "]", ":", ","}

IsLetter(c) == \E j \in 1..26 : c = Uppers[j] \/ c = Lowers[j]

\* classes of characters
InClass(c, class) ==
  CASE class = "digit" -> IsDigit(c)
    [] class = "letter" -> IsLetter(c)
    [] class = "blank" -> c = " "
    [] class = "unquoted" -> c # "\""

\* the length of the longest prefix of cs made of characters of a class
RECURSIVE RunLen(_, _)
RunLen(cs, class) ==
  IF cs # <<>> /\ InClass(cs[1], class) THEN 1 + RunLen(Tail(cs), class) ELSE 0

Drop(cs, n) == SubSeq(cs, n + 1, Len(cs))

Take(cs, n) == SubSeq(cs, 1, n)

IsQuote(c) == c = "\""

\* a JSON number literal: digits without a leading zero
IsJsonInt(ds) == AllDigits(ds) /\ (Len(ds) > 1 => ds[1] # "0")

LiteralOrWord(w) ==
  IF w = StringOf(Null) THEN Tok("null")
  ELSE IF w = StringOf(Bool(TRUE)) THEN Tok("true")
  ELSE IF w = StringOf(Bool(FALSE)) THEN Tok("false")
  ELSE Word(w)

\* the tokens of a text
RECURSIVE Lex(_)
Lex(cs) ==
  IF cs = <<>> THEN <<>>
  ELSE LET c == cs[1]
           rest == Tail(cs)
       IN  CASE c \in Punctuation -> <<Tok(c)>> \o Lex(rest)
             [] c = " " -> <<Space>> \o Lex(rest)
             [] c = "\n" ->
                  LET n == RunLen(rest, "blank")
                  IN  <<Newline(n)>> \o Lex(Drop(rest, n))
             [] IsQuote(c) ->
                  LET n == RunLen(rest, "unquoted")
                  IN  IF n = Len(rest) THEN <<Word(cs)>>
                      ELSE <<StrTok(Take(rest, n))>> \o Lex(Drop(rest, n + 1))
             [] IsDigit(c) ->
                  LET n == RunLen(cs, "digit")
                  IN  (IF IsJsonInt(Take(cs, n)) THEN <<NumTok(StrNum(Take(cs, n)))>>
                       ELSE <<Word(Take(cs, n))>>) \o Lex(Drop(cs, n))
             [] c = "-" ->
                  LET n == RunLen(rest, "digit")
                  IN  (IF IsJsonInt(Take(rest, n)) THEN <<NumTok(0 - StrNum(Take(rest, n)))>>
                       ELSE <<Word(Take(cs, n + 1))>>) \o Lex(Drop(rest, n))
             [] IsLetter(c) ->
                  LET n == RunLen(cs, "letter")
                  IN  <<LiteralOrWord(Take(cs, n))>> \o Lex(Drop(cs, n))
             [] OTHER -> <<Word(<<c>>)>> \o Lex(rest)

Blanks(n) == [j \in 1..n |-> " "]

\* the characters of a token
TokenChars(tk) ==
  CASE tk.k = "number" -> StringOf(Num(tk.n))
    [] tk.k = "string" -> <<"\"">> \o tk.s \o <<"\"">>
    [] tk.k = "newline" -> <<"\n">> \o Blanks(tk.n)
    [] tk.k = "word" -> tk.s
    [] tk.k = "null" -> StringOf(Null)
    [] tk.k = "true" -> StringOf(Bool(TRUE))
    [] tk.k = "false" -> StringOf(Bool(FALSE))
    [] OTHER -> <<tk.k>>

\* the characters of a text of tokens
RECURSIVE Render(_)
Render(ts) == IF ts = <<>> THEN <<>> ELSE TokenChars(Head(ts)) \o Render(Tail(ts))

----------------------------------------------------------------------------
(* The graph store (useGraph): nodes and selection                         *)

\* The graph store is a collaborator: setGraph(text) rebuilds its nodes
\* from the text before it returns, every node has a stable identifier,
\* the path of the value it shows and the rows shown for it.

TypeName(tr) == tr.t

IsPrimitiveTree(tr) == tr.t \in {"null", "number", "boolean", "string"}

\* the rows of a node: one row for each field of a map, one row without a
\* key for a primitive
RowsOf(tr) ==
  IF tr.t = "object"
  THEN [j \in 1..Len(tr.k) |->
          [key |-> tr.k[j],
           value |-> IF IsPrimitiveTree(tr.v[j]) THEN tr.v[j] ELSE Undef,
           type |-> TypeName(tr.v[j])]]
  ELSE IF IsPrimitiveTree(tr)
  THEN <<[key |-> <<>>, value |-> tr, type |-> TypeName(tr)]>>
  ELSE <<>>

\* the steps that lead to a position of a tree
RECURSIVE StepsTo(_, _)
StepsTo(tr, q) ==
  IF q = <<>> THEN <<>>
  ELSE <<IF tr.t = "array" THEN NumStep(Head(q).n) ELSE StrStep(KeyStr(Head(q)))>>
         \o StepsTo(TreeChild(tr, Head(q)), Tail(q))

\* the stable identifier of the node at a position
NodeId(q) == [t |-> "id", q |-> q]

\* the positions shown as nodes: the maps, and the primitives that are no
\* field of a map
NodePositions(tr) ==
  { q \in Positions(tr) :
      \/ TreeAt(tr, q).t = "object"
      \/ /\ IsPrimitiveTree(TreeAt(tr, q))
         /\ (q = <<>> \/ TreeAt(tr, SubSeq(q, 1, Len(q) - 1)).t = "array") }

\* the nodes setGraph builds from a text, as the gen-th build
NodesOf(text, gen) ==
  LET p == JSONparse(text)
  IN  IF ~p.ok THEN {}
      ELSE { [some |-> TRUE, id |-> NodeId(q), path |-> PathOf(StepsTo(p.tree, q)),
              text |-> RowsOf(TreeAt(p.tree, q)), gen |-> gen] :
             q \in NodePositions(p.tree) }

\* useGraph.getState().nodes
GraphNodes ==
  IF graph.op = "setGraph" THEN NodesOf(graph.json, graphCalls) ELSE {}

----------------------------------------------------------------------------
(* The field editor (NodeModal): what a render computes                    *)

\* READ_ONLY_KEYS
READ_ONLY_KEYS == { <<"c", "o", "l", "o", "r">> }

\* nodeData?.path ?? []
PathOfNode(node) == IF node.some THEN node.path ELSE PathOf(<<>>)

\* nodeData?.text ?? []
RowsOfNode(node) == IF node.some THEN node.text ELSE <<>>

\* nodeData?.id
IdOfNode(node) == IF node.some THEN node.id ELSE Undef

\* cur[seg] on a deserialized value that is neither null nor undefined
TreeProp(tr, step) ==
  LET k == ToPropertyKey(step)
  IN  IF tr.t \in {"array", "object"} THEN TreeChild(tr, k)
      ELSE IF tr.t = "string" /\ k.i /\ k.n < Len(tr.s) THEN Str(<<tr.s[k.n + 1]>>)
      ELSE Undef

RECURSIVE CurLoop(_, _)
CurLoop(cur, segs) ==
  IF segs = <<>> THEN cur
  ELSE IF cur.t \in {"null", "undefined"} THEN Undef
  ELSE CurLoop(TreeProp(cur, Head(segs)), Tail(segs))

\* currentNodeValue: the value at the path in the stored text
currentNodeValue(text, path) ==
  LET p == JSONparse(CurrentText(text))
  IN  IF ~p.ok THEN Undef ELSE CurLoop(p.tree, path.segs)

\* isObjectNode
isObjectNode(cnv) == cnv.t = "object"

\* the map the rows with a key and a primitive type make
RowsObject(rows) ==
  LET keep == SelectSeq(rows, LAMBDA r : r.key # <<>> /\ r.type \notin {"array", "object"})
  IN  ObjectTree([j \in 1..Len(keep) |-> keep[j].key],
                 [j \in 1..Len(keep) |-> keep[j].value])

\* defaultText
defaultText(rows) ==
  IF rows = <<>> THEN EmptyObjectChars
  ELSE IF Len(rows) = 1 /\ rows[1].key = <<>> THEN StringOf(rows[1].value)
  ELSE Render(PrettyText(RowsObject(rows)))

\* the drafts of the primitive fields of a map
PrimitiveDrafts(cnv) ==
  LET js == SelectSeq([j \in 1..Len(cnv.k) |-> j],
                      LAMBDA j : IsEditablePrimitive(cnv.v[j]))
  IN  Drafts([i \in 1..Len(js) |-> cnv.k[js[i]]],
             [i \in 1..Len(js) |-> StringOf(cnv.v[js[i]])])

\* the slip of leaving a map without drafts
initializeFieldDraftsCleared(cnv, rows, td) ==
  IF isObjectNode(cnv)
  THEN [textDraft |-> td, fieldDrafts |-> NoDrafts]
  ELSE [textDraft |-> defaultText(rows), fieldDrafts |-> NoDrafts]

\* initializeFieldDrafts(): the drafts it leaves, td being the draft text
\* before the call
initializeFieldDrafts(cnv, rows, td) ==
  IF isObjectNode(cnv)
  THEN [textDraft |-> td, fieldDrafts |-> PrimitiveDrafts(cnv)]
  ELSE [textDraft |-> defaultText(rows), fieldDrafts |-> NoDrafts]

HasDraft(fd, key) == \E j \in 1..Len(fd.k) : fd.k[j] = key

DraftOf(fd, key) == fd.v[CHOOSE j \in 1..Len(fd.k) : fd.k[j] = key]

\* setFieldDrafts(d => ({ ...d, [key]: value }))
WithDraft(fd, key, value) ==
  IF HasDraft(fd, key)
  THEN Drafts(fd.k, [j \in 1..Len(fd.k) |-> IF fd.k[j] = key THEN value ELSE fd.v[j]])
  ELSE Drafts(Append(fd.k, key), Append(fd.v, value))

\* the slip of committing the draft of a read-only key too
nextObjNoReadOnly(cnv, fd) ==
  ObjectTree(cnv.k,
    [j \in 1..Len(cnv.k) |->
       IF HasDraft(fd, cnv.k[j]) /\ IsEditablePrimitive(cnv.v[j])
       THEN coerceLike(cnv.v[j], DraftOf(fd, cnv.k[j]))
       ELSE cnv.v[j]])

\* onSave, structured mode: nextObj, the copy of the current value with
\* the coerced drafts of its primitive fields that are not read-only
nextObj(cnv, fd) ==
  ObjectTree(cnv.k,
    [j \in 1..Len(cnv.k) |->
       IF /\ HasDraft(fd, cnv.k[j])
          /\ cnv.k[j] \notin READ_ONLY_KEYS
          /\ IsEditablePrimitive(cnv.v[j])
       THEN coerceLike(cnv.v[j], DraftOf(fd, cnv.k[j]))
       ELSE cnv.v[j]])

\* the slip of dropping a draft that does not deserialize
rawNextBlocking(td) ==
  IF JSONparse(Lex(td)).ok THEN JSONparse(Lex(td)).tree ELSE Undef

\* onSave, raw mode: the deserialized draft, or the draft text itself
rawNext(td) ==
  IF JSONparse(Lex(td)).ok THEN JSONparse(Lex(td)).tree ELSE Str(td)

----------------------------------------------------------------------------
(* The field editor (NodeModal): events                                    *)

\* currentNodeValue of the render on a stored text and a selection
RenderedValue(text, node) == currentNodeValue(text, PathOfNode(node))

\* whether a dependency of the effect [opened, isObjectNode,
\* currentNodeValue, defaultText] differs between two renders; a
\* container is a new object whenever the memo is computed again
DepsChanged(text1, node1, opened1, text2, node2, opened2) ==
  LET a == RenderedValue(text1, node1)
      b == RenderedValue(text2, node2)
      recomputed == text1 # text2 \/ node1 # node2 \/ ~node2.some
  IN  \/ opened1 # opened2
      \/ isObjectNode(a) # isObjectNode(b)
      \/ recomputed /\ (b.t \in {"array", "object"} \/ a # b)
      \/ defaultText(RowsOfNode(node1)) # defaultText(RowsOfNode(node2))

\* the state the component settles in after a handler has set edit mode
\* ie and drafts td and fd: when a dependency changed, the effect leaves
\* edit mode and initializes the drafts
Settle(ie, td, fd) ==
  IF DepsChanged(json, selectedNode, opened, json', selectedNode', opened')
  THEN LET init == initializeFieldDrafts(RenderedValue(json', selectedNode'),
                                         RowsOfNode(selectedNode'), td)
       IN  /\ isEditing' = FALSE
           /\ textDraft' = init.textDraft
           /\ fieldDrafts' = init.fieldDrafts
  ELSE /\ isEditing' = ie
       /\ textDraft' = td
       /\ fieldDrafts' = fd

\* the state an event found
EdNow ==
  [store |-> StoreNow, selectedNode |-> selectedNode, opened |-> opened,
   isEditing |-> isEditing, textDraft |-> textDraft, fieldDrafts |-> fieldDrafts,
   timers |-> timers, updCalls |-> updCalls, nodes |-> GraphNodes]

Event(ev) == [ev |-> ev, before |-> EdNow]

UnchangedStore ==
  UNCHANGED <<json, loading, graph, file, graphCalls, fileCalls, jsonGot, last,
              mutated, ops>>

\* a text is loaded into the store: setJson(text)
LoadText(text) ==
  /\ events < MaxEvents
  /\ setJson(text)
  /\ last' = Called("setJson", text, NotAPath, Undef)
  /\ mutated' = TRUE
  /\ UNCHANGED <<jsonGot, ops, selectedNode, opened, timers, updCalls, navVars, coerceVars>>
  /\ Settle(isEditing, textDraft, fieldDrafts)
  /\ edLast' = Event("load")
  /\ events' = events + 1

\* a node of the graph is clicked: it is selected and the modal opens
SelectNode(node) ==
  /\ events < MaxEvents
  /\ node \in GraphNodes
  /\ selectedNode' = node
  /\ opened' = TRUE
  /\ UnchangedStore
  /\ UNCHANGED <<timers, updCalls, navVars, coerceVars>>
  /\ Settle(isEditing, textDraft, fieldDrafts)
  /\ edLast' = Event("select")
  /\ events' = events + 1

\* onClose: the modal is closed
OnClose ==
  /\ events < MaxEvents
  /\ opened
  /\ opened' = FALSE
  /\ UnchangedStore
  /\ UNCHANGED <<selectedNode, timers, updCalls, navVars, coerceVars>>
  /\ Settle(isEditing, textDraft, fieldDrafts)
  /\ edLast' = Event("close")
  /\ events' = events + 1

\* onEdit
OnEdit ==
  /\ events < MaxEvents
  /\ opened
  /\ ~isEditing
  /\ UnchangedStore
  /\ UNCHANGED <<selectedNode, opened, timers, updCalls, navVars, coerceVars>>
  /\ Settle(TRUE, textDraft, fieldDrafts)
  /\ edLast' = Event("edit")
  /\ events' = events + 1

\* onChange of the input of a field
TypeField(key, text) ==
  /\ events < MaxEvents
  /\ opened
  /\ isEditing
  /\ isObjectNode(RenderedValue(json, selectedNode))
  /\ HasDraft(fieldDrafts, key)
  /\ key \notin READ_ONLY_KEYS
  /\ UnchangedStore
  /\ UNCHANGED <<selectedNode, opened, timers, updCalls, navVars, coerceVars>>
  /\ Settle(isEditing, textDraft, WithDraft(fieldDrafts, key, text))
  /\ edLast' = Event("type")
  /\ events' = events + 1

\* onChange of the text area
TypeText(text) ==
  /\ events < MaxEvents
  /\ opened
  /\ isEditing
  /\ ~isObjectNode(RenderedValue(json, selectedNode))
  /\ UnchangedStore
  /\ UNCHANGED <<selectedNode, opened, timers, updCalls, navVars, coerceVars>>
  /\ Settle(isEditing, text, fieldDrafts)
  /\ edLast' = Event("type")
  /\ events' = events + 1

\* onCancel
OnCancel ==
  /\ events < MaxEvents
  /\ opened
  /\ isEditing
  /\ UnchangedStore
  /\ UNCHANGED <<selectedNode, opened, timers, updCalls, navVars, coerceVars>>
  /\ LET init == initializeFieldDrafts(RenderedValue(json, selectedNode),
                                       RowsOfNode(selectedNode), textDraft)
     IN  Settle(FALSE, init.textDraft, init.fieldDrafts)
  /\ edLast' = Event("cancel")
  /\ events' = events + 1

\* the slip of queuing no callback
refreshSelectionNever(selectedId) == timers

\* refreshSelection(): the callback queued for the identifier of the
\* render, none when there is no identifier
refreshSelection(selectedId) ==
  IF Truthy(selectedId) THEN Append(timers, selectedId) ELSE timers

\* onSave
OnSave ==
  /\ events < MaxEvents
  /\ opened
  /\ isEditing
  /\ LET cnv == RenderedValue(json, selectedNode)
         next == IF isObjectNode(cnv) THEN nextObj(cnv, fieldDrafts)
                 ELSE rawNext(textDraft)
     IN  updateAtPath(PathOfNode(selectedNode), next)
  /\ updCalls' = updCalls + 1
  /\ timers' = refreshSelection(IdOfNode(selectedNode))
  /\ UNCHANGED <<jsonGot, ops, selectedNode, opened, navVars, coerceVars>>
  /\ Settle(FALSE, textDraft, fieldDrafts)
  /\ edLast' = Event("save")
  /\ events' = events + 1

\* the callback of setTimeout(..., 0): the node of the queued identifier
\* is looked up and, when found, selected
RunTimer ==
  /\ timers # <<>>
  /\ LET found == { n \in GraphNodes : n.id = Head(timers) }
     IN  selectedNode' = IF found # {} THEN CHOOSE n \in found : TRUE ELSE selectedNode
  /\ timers' = Tail(timers)
  /\ UnchangedStore
  /\ UNCHANGED <<opened, updCalls, events, navVars, coerceVars>>
  /\ Settle(isEditing, textDraft, fieldDrafts)
  /\ edLast' = [ev |-> "timer", before |-> EdNow]

\* the document of the editor runs:
\* {"n":42,"ok":true,"color":"red","kids":["7",{"z":null}]}
EdDoc ==
  ObjectTree(<< <<"n">>, <<"o", "k">>, <<"c", "o", "l", "o", "r">>, <<"k", "i", "d", "s">> >>,
             << Num(42), Bool(TRUE), Str(<<"r", "e", "d">>),
                ArrayTree(<< Str(<<"7">>), ObjectTree(<< <<"z">> >>, << Null >>) >>) >>)

EdTexts == { PrettyText(EdDoc), BadText }

\* the fields typed into, and the texts typed
EdKeys == { <<"n">>, <<"o", "k">>, <<"z">>, <<"c", "o", "l", "o", "r">> }

FieldTexts == { <<"1", "7">>, <<"a", "b", "c">>, <<" ", "F", "a", "l", "s", "e">> }

RawTexts ==
  { <<"5">>, <<"{", "\"", "k", "\"", ":", "1", "}">>, <<"{", "o", "o", "p", "s">> }

EdInit == StoreInit /\ NavIdle /\ CoerceIdle /\ EdIdle

EdNext ==
  \/ \E text \in EdTexts : LoadText(text)
  \/ \E node \in GraphNodes : SelectNode(node)
  \/ OnClose
  \/ OnEdit
  \/ \E key \in EdKeys, text \in FieldTexts : TypeField(key, text)
  \/ \E text \in RawTexts : TypeText(text)
  \/ OnCancel
  \/ OnSave
  \/ RunTimer

EditorSpec == EdInit /\ [][EdNext]_vars

\* a step that runs the oldest queued callback: the steps of RunTimer, and
\* no other step of the editor
TimerFires == timers # <<>> /\ timers' = Tail(timers)

\* the event loop runs every callback setTimeout(..., 0) has queued
EditorFairSpec == EditorSpec /\ WF_timers(TimerFires)

----------------------------------------------------------------------------
(* The assembly of nextObj as an operation on drawn arguments              *)

sColor == <<"c", "o", "l", "o", "r">>
sN == <<"n">>
sKids == <<"k", "i", "d", "s">>
sQ == <<"q">>

\* current sub-values: maps with a read-only field, primitive fields and a
\* container field
AssembleValues ==
  { ObjectTree(<<sColor, sN, sKids>>,
               << Str(<<"r", "e", "d">>), Num(42), ArrayTree(<< Num(7) >>) >>),
    ObjectTree(<<sN, sKids, sColor>>,
               << Bool(TRUE), ObjectTree(<<sN>>, << Num(1) >>), Num(3) >>) }

AssembleKeys == <<sColor, sN, sKids, sQ>>

AssembleTexts == { <<"1", "7">>, <<"b", "l", "u", "e">> }

\* drafts for any of the keys, a key of no field included
AssembleDrafts ==
  { LET ks == SelectSeq(AssembleKeys, LAMBDA k : f[k] # <<>>)
    IN  Drafts(ks, [j \in 1..Len(ks) |-> f[ks[j]]]) :
    f \in [ {sColor, sN, sKids, sQ} -> AssembleTexts \cup { <<>> } ] }

AssembleInit ==
  /\ cOrig \in AssembleValues
  /\ cInput \in AssembleDrafts
  /\ cOut = Undef
  /\ cpc = "drafted"
  /\ StoreInit
  /\ NavIdle
  /\ EdIdle

\* cOut = nextObj, assembled from the current sub-value cOrig and the
\* drafts cInput
CallNextObj ==
  /\ cpc = "drafted"
  /\ cOut' = nextObj(cOrig, cInput)
  /\ cpc' = "assembled"
  /\ UNCHANGED <<cOrig, cInput, navVars, storeVars, edVars>>

AssembleNext == CallNextObj

AssembleSpec == AssembleInit /\ [][AssembleNext]_vars

Assembled == cpc = "assembled"

IsContainerTree(tr) == tr.t \in {"array", "object"}

\* C12: a structured save only changes editable keys.  In the value handed
\* to updateAtPath the read-only key "color" and every key whose value is
\* a container carry exactly the value of the current sub-value, whatever
\* drafts exist; only primitive keys that are not read-only and have a
\* draft may differ; no key is added or removed.
C12_OnlyEditableKeysChange ==
  Assembled =>
    /\ cOut.t = "object"
    /\ cOut.k = cOrig.k
    /\ \A j \in 1..Len(cOrig.k) :
         /\ (cOrig.k[j] \in READ_ONLY_KEYS \/ IsContainerTree(cOrig.v[j]))
              => cOut.v[j] = cOrig.v[j]
         /\ cOut.v[j] # cOrig.v[j] =>
              /\ IsPrimitiveTree(cOrig.v[j])
              /\ cOrig.k[j] \notin READ_ONLY_KEYS
              /\ HasDraft(cInput, cOrig.k[j])

\* drafts exist for the read-only key, for the container and for a key of
\* no field; the number took its draft
C12_Witness ==
  /\ Assembled
  /\ \A k \in {sColor, sN, sKids, sQ} : HasDraft(cInput, k)
  /\ DraftOf(cInput, sColor) = <<"b", "l", "u", "e">>
  /\ TreeChild(cOrig, Key(sN)) = Num(42)
  /\ TreeChild(cOut, Key(sN)) = Num(17)
  /\ TreeChild(cOut, Key(sColor)) = Str(<<"r", "e", "d">>)

----------------------------------------------------------------------------
(* Properties of the field editor                                          *)

\* what the render before the last event computed
ValueBefore == RenderedValue(edLast.before.store.json, edLast.before.selectedNode)

RowsBefore == RowsOfNode(edLast.before.selectedNode)

PathBefore == PathOfNode(edLast.before.selectedNode)

Saved == edLast.ev = "save"

SavedRaw == Saved /\ ~isObjectNode(ValueBefore)

DraftParsed == JSONparse(Lex(edLast.before.textDraft))

\* C15: a raw-mode save is never blocked.  When the draft deserializes,
\* Save calls updateAtPath(path, parsed draft); otherwise it calls
\* updateAtPath(path, the draft text as a text value); either way it makes
\* exactly one updateAtPath call and the editor leaves edit mode.
C15_RawSaveNeverBlocked ==
  SavedRaw =>
    /\ last.op = "updateAtPath"
    /\ last.path = PathBefore
    /\ last.next = (IF DraftParsed.ok THEN DraftParsed.tree
                    ELSE Str(edLast.before.textDraft))
    /\ updCalls = edLast.before.updCalls + 1
    /\ ~isEditing

\* a draft that does not deserialize was saved, and the stored text holds
\* it as a text value
C15_Witness ==
  /\ SavedRaw
  /\ ~DraftParsed.ok
  /\ edLast.before.textDraft = <<"{", "o", "o", "p", "s">>
  /\ JSONparse(json).ok
  /\ TreeAt(JSONparse(json).tree, <<Key(sKids), Idx(0)>>) = Str(<<"{", "o", "o", "p", "s">>)

\* C16: only Save writes.  Entering edit mode, typing into a draft and
\* Cancel leave the stored text, the loading flag and both collaborators
\* unchanged and call updateAtPath not at all; Cancel also leaves edit
\* mode with every draft of the mode derived anew from the current
\* sub-value; of the events of the editor only Save changes the store.
C16_OnlySaveWrites ==
  /\ edLast.ev \in {"edit", "type", "cancel", "select", "close", "timer"} =>
       /\ StoreNow = edLast.before.store
       /\ updCalls = edLast.before.updCalls
  /\ edLast.ev = "cancel" =>
       /\ ~isEditing
       /\ IF isObjectNode(ValueBefore)
          THEN fieldDrafts = PrimitiveDrafts(ValueBefore)
          ELSE textDraft = defaultText(RowsBefore) /\ fieldDrafts = NoDrafts

\* Cancel discarded a draft that had been typed
C16_Witness ==
  /\ edLast.ev = "cancel"
  /\ isObjectNode(ValueBefore)
  /\ edLast.before.fieldDrafts # PrimitiveDrafts(ValueBefore)
  /\ fieldDrafts = PrimitiveDrafts(ValueBefore)
  /\ ~isEditing
  /\ StoreNow = edLast.before.store

\* the state right after Save: the store call is done, the graph store
\* holds the committed text, edit mode is left, the lookup has not run
SaveCommitted ==
  Saved =>
    /\ last.op = "updateAtPath"
    /\ updCalls = edLast.before.updCalls + 1
    /\ JSONparse(CurrentText(edLast.before.store.json)).ok =>
         /\ graph = setGraph(json)
         /\ graphCalls = edLast.before.store.graphCalls + 1
         /\ json = updateAtPathOutcome(edLast.before.store.json, last.path, last.next).text
    /\ ~isEditing
    /\ selectedNode = edLast.before.selectedNode
    /\ timers = (IF edLast.before.selectedNode.some
                 THEN Append(edLast.before.timers, edLast.before.selectedNode.id)
                 ELSE edLast.before.timers)

\* while a lookup is queued the graph store holds the stored text
QueuedLookupSeesCommit ==
  (timers # <<>>) => (graph = setGraph(json) /\ mutated)

\* the lookup has run: a node of the queued identifier, when the graph
\* store has one, is the selection
LookupRan ==
  /\ edLast.ev = "timer"
  /\ \A n \in edLast.before.nodes :
       n.id = Head(edLast.before.timers) => selectedNode = n

\* C17: commit ordering.  On Save, in either mode, updateAtPath (with the
\* graph store handed the committed text inside setJson) completes, then
\* edit mode is left, and the lookup of the node by its identifier runs
\* only in a later turn, never before the graph store holds the committed
\* text; every Save leaves the editor out of edit mode and every queued
\* lookup eventually runs and selects the node of its identifier when
\* there is one.
C17_CommitOrdering ==
  /\ [](SaveCommitted /\ QueuedLookupSeesCommit)
  /\ [](edLast.ev = "timer" => LookupRan)
  /\ (Saved ~> ~isEditing)
  /\ ((timers # <<>>) ~> LookupRan)

\* a lookup queued by a Save that changed the stored text has run and
\* selected the node rebuilt from the committed text
C17_Witness ==
  /\ LookupRan
  /\ edLast.before.selectedNode.some
  /\ selectedNode.id = edLast.before.selectedNode.id
  /\ selectedNode.gen > edLast.before.selectedNode.gen
  /\ updCalls >= 1

\* the drafts as they were when edit mode was entered
DraftsUntouched ==
  IF isObjectNode(ValueBefore)
  THEN edLast.before.fieldDrafts = PrimitiveDrafts(ValueBefore)
  ELSE edLast.before.textDraft = defaultText(RowsBefore)

\* C19: a Save without edits is a no-op on content.  For every document
\* that deserializes and every target path, entering edit mode and
\* pressing Save with the drafts unchanged leaves a document structurally
\* equal to the one before, in structured and in raw mode.
C19_SaveWithoutEditsIsNoOp ==
  (Saved /\ DraftsUntouched /\ JSONparse(edLast.before.store.json).ok) =>
    /\ JSONparse(json).ok
    /\ JSONparse(json).tree = JSONparse(edLast.before.store.json).tree

\* C19 for structured mode alone
C19_StructuredSaveWithoutEditsIsNoOp ==
  (Saved /\ DraftsUntouched /\ JSONparse(edLast.before.store.json).ok
     /\ isObjectNode(ValueBefore)) =>
    /\ JSONparse(json).ok
    /\ JSONparse(json).tree = JSONparse(edLast.before.store.json).tree

\* the text "7" of a sequence, saved without an edit, is stored as the
\* number 7
C19_TextBecameNumber ==
  /\ SavedRaw
  /\ DraftsUntouched
  /\ ValueBefore = Str(<<"7">>)
  /\ TreeAt(JSONparse(json).tree, <<Key(sKids), Idx(0)>>) = Num(7)

\* C20: the deferred refresh never changes which node is selected.
\* Whenever the callback queued by a Save runs, it sets the selection only
\* to a node whose identifier is the identifier of the node selected at
\* that moment, whatever events came between the Save and the callback.
C20_RefreshKeepsSelection ==
  (edLast.ev = "timer" /\ selectedNode # edLast.before.selectedNode) =>
    selectedNode.id = IdOfNode(edLast.before.selectedNode)

\* the callback selects the node of the identifier its Save was made on
C20_RefreshSelectsSavedNode ==
  (edLast.ev = "timer" /\ selectedNode # edLast.before.selectedNode) =>
    selectedNode.id = Head(edLast.before.timers)

\* another node was selected between the Save and the callback, and the
\* callback selected the node of the Save again
C20_SelectionTakenBack ==
  /\ edLast.ev = "timer"
  /\ edLast.before.selectedNode.some
  /\ selectedNode.id # edLast.before.selectedNode.id

====
